---- MODULE Spec2Model ----
(***************************************************************************)
(* LogisticRegression.fit (esnlm/readouts/logistic.py) as a state machine. *)
(*                                                                         *)
(* Arrays are records [shape, data]: shape is the numpy shape tuple and    *)
(* data the entries in row-major order.  Objective (log-likelihood) values *)
(* are integers counted in units of 1/Scale, so that an improvement of one *)
(* half is distinguishable from an improvement of one, and are measured    *)
(* from the objective at the parameters stored when fit is called (fit    *)
(* only ever compares differences of objective values).  The numeric       *)
(* kernels (softmax, gradient, hessian, newton_raphson, scipy's minimize)  *)
(* are imported by logistic.py; their results are drawn from bounded sets: *)
(* an iteration changes the objective by one of Deltas, and parameter      *)
(* contents are one of ParamLevels.                                        *)
(***************************************************************************)
EXTENDS Integers, Sequences, FiniteSets, TLC

\* ------------------------------------------------------------------ bounds
MaxIn == 2         \* input_dim and the width of x
MaxOut == 2        \* output_dim and the width of y
MaxRowsX == 3      \* rows of x
MaxRowsY == 2      \* rows of y, length of a label list
MaxIter == 2       \* largest max_iter argument
Scale == 2         \* objective values are counted in units of 1/Scale
MaxDrop == 1       \* how far one iteration may lower the objective

\* ------------------------------------------------------- program constants
\* line 122: `if new_value < old_value + 1`
Threshold == 1 * Scale

NewtonRaphson == "Newton-Raphson"
Methods == {NewtonRaphson, "Newton-CG"}

Header == "... Newton-Raphson:"
TheEnd == "The End."

\* the objective at the initial parameters is the origin of the scale
InitialObjective == 0
\* changes of the objective over one iteration: a drop, none, just below
\* the threshold, the threshold
Deltas == {0 - MaxDrop, 0, Threshold - 1, Threshold}
None == (0 - MaxDrop) - 1

\* the parameter contents that the random initialisation and the
\* optimizers are drawn from
ParamLevels == {0, 1}

VARIABLES
    input_dim, output_dim, verbose, \* constructor arguments (lines 25-27)
    self_params,                    \* self.params
    pc,                             \* position of the running fit call
    x, y_arg, method, max_iter,     \* arguments of the running fit call
    y,                              \* local y after line 99
    params, old_value, new_value,   \* locals of fit
    iters,                          \* number of loop bodies entered
    term,                           \* how the for loop was left
    out,                            \* text printed by the running call
    ret,                            \* value returned by fit
    err,                            \* exception raised by the running call
    evals,                          \* kernels that returned during the call
    hist,                           \* objective values: initial, then one per iteration
    nr_out,                         \* result of the last newton_raphson call
    before,                         \* self.params when fit was called
    writes                          \* assignments to self.params in the call

ctor == <<input_dim, output_dim, verbose>>
args == <<x, y_arg, method, max_iter>>
vars == <<input_dim, output_dim, verbose, self_params, pc, x, y_arg, method,
          max_iter, y, params, old_value, new_value, iters, term, out, ret,
          err, evals, hist, nr_out, before, writes>>

\* ------------------------------------------------------------------ arrays
RECURSIVE Size(_)
Size(shape) == IF shape = <<>> THEN 1 ELSE Head(shape) * Size(Tail(shape))

NoArray == [shape |-> <<>>, data |-> <<>>]

\* the bounded set of contents an array of `size` entries is drawn from
Contents(size) == {[i \in 1..size |-> v + i - 1] : v \in ParamLevels}

\* ndarray.reshape: same entries in the same order under a new shape
ReshapeOK(a, shape) == Size(shape) = Len(a.data)
\* (variant that keeps the old shape)
ReshapeNoop(a, shape) == a
Reshape(a, shape) == [shape |-> shape, data |-> a.data]

\* np.array(self.params): a copy with the same shape and entries
\* (variant that starts from zeros instead of the stored entries)
CopyFresh(a) == [shape |-> a.shape, data |-> [i \in 1..Len(a.data) |-> 0]]
CopyArray(a) == a

\* np.dot(x, p) for 2-D x: the inner dimensions must agree
DotOK(xs, ps) == xs[2] = ps[1]
DotShape(xs, ps) == IF Len(ps) = 2 THEN <<xs[1], ps[2]>> ELSE <<xs[1]>>

\* numpy broadcasting of two shapes (aligned from the last axis)
RECURSIVE Broadcastable(_, _)
Broadcastable(s, t) ==
    IF s = <<>> \/ t = <<>> THEN TRUE
    ELSE LET a == s[Len(s)]
             b == t[Len(t)]
         IN  (a = b \/ a = 1 \/ b = 1)
             /\ Broadcastable(SubSeq(s, 1, Len(s) - 1), SubSeq(t, 1, Len(t) - 1))

MatShape(m) == <<Len(m), Len(m[1])>>

\* ------------------------------------------------------------ label lists
\* np.eye(k)
Eye(k) == [r \in 1..k |-> [c \in 1..k |-> IF r = c THEN 1 ELSE 0]]

\* lines 98-99: a python list of labels is replaced by np.eye(output_dim)[y]
IsList(ya) == ya.kind = "list"
\* (variant that looks the rows up in reverse order)
ExpandReversed(k, ya) ==
    IF IsList(ya) THEN [i \in 1..Len(ya.val) |-> Eye(k)[k - ya.val[i]]]
    ELSE ya.val
Expand(k, ya) ==
    IF IsList(ya) THEN [i \in 1..Len(ya.val) |-> Eye(k)[ya.val[i] + 1]]
    ELSE ya.val

\* ------------------------------------------------------------------ inputs
XShapes == {<<n, d>> : n \in 1..MaxRowsX, d \in 1..MaxIn}

\* target matrices of n rows and c columns: a one-hot one (row i is class
\* i modulo c) and one that is not one-hot
Targets(n, c) ==
    {[i \in 1..n |-> Eye(c)[((i - 1) % c) + 1]], [i \in 1..n |-> [j \in 1..c |-> 1]]}

YArgs(k) ==
    {[kind |-> "list", val |-> l] :
        l \in UNION {[1..n -> 0..(k - 1)] : n \in 1..MaxRowsY}}
    \cup
    {[kind |-> "array", val |-> m] :
        m \in UNION {Targets(n, c) : n \in 1..MaxRowsY, c \in 1..MaxOut}}

\* ----------------------------------------------------------------- kernels
\* newton_raphson(grad, hess, params, objective): new parameters with as
\* many entries as params, as a matrix or flattened
newton_raphson(p) ==
    {[shape |-> s, data |-> d] :
        s \in {p.shape, <<Len(p.data)>>}, d \in Contents(Len(p.data))}

\* scipy.optimize.minimize(...).x: a flat vector of the size of its start
minimize(p) == {[shape |-> p.shape, data |-> d] : d \in Contents(Len(p.data))}

\* lines 101-104, shape conditions of _objective_function(params):
\* np.dot(x, params.reshape(self.params.shape)), then py_given_x ** y
ObjDotOK(xs, p, shape) == ReshapeOK(p, shape) /\ DotOK(xs, shape)
ObjPowOK(xs, yy, shape) == Broadcastable(DotShape(xs, shape), MatShape(yy))

\* line 111: `for i in range(max_iter)` has another index to hand out
\* (variant that hands out one index too many)
InRangeOff(i, n) == i <= n
InRange(i, n) == i < n

\* line 122: the break condition
\* (variant that also breaks at an improvement of exactly 1.0)
BreakTestLeq(nv, ov) == nv <= ov + Threshold
BreakTest(nv, ov) == nv < ov + Threshold

\* line 119: the result of newton_raphson replaces params unconditionally
\* (variant that keeps the old parameters when the objective fell)
AcceptBest(np, p, nv, ov) == IF nv < ov THEN p ELSE np
Accept(np, p, nv, ov) == np

\* line 124: old_value = new_value
\* (variant that never updates old_value)
NextOldStale(nv, ov) == ov
NextOld(nv, ov) == nv

\* lines 111-124 hold no assignment to self.params
\* (variant that stores the parameters in every iteration)
LoopBodyStoreEach(stored, np) == [params |-> Reshape(np, stored.shape), writes |-> 1]
LoopBodyStore(stored, np) == [params |-> stored, writes |-> 0]

\* lines 112-113, 127-128: text printed only when verbose
Printed(v, text) == IF v = TRUE THEN <<text>> ELSE <<>>

\* ------------------------------------------------------------------- Init
\* lines 24-29: the constructor
Init ==
    /\ input_dim \in 1..MaxIn
    /\ output_dim \in 1..MaxOut
    /\ verbose \in BOOLEAN
    /\ self_params \in {[shape |-> <<input_dim, output_dim>>, data |-> d] :
                            d \in Contents(input_dim * output_dim)}
    /\ pc = "idle"
    /\ x = <<>> /\ y_arg = [kind |-> "none", val |-> <<>>]
    /\ method = "" /\ max_iter = 0
    /\ y = <<>>
    /\ params = NoArray /\ old_value = None /\ new_value = None
    /\ iters = 0 /\ term = "none" /\ out = <<>> /\ ret = NoArray
    /\ err = "none" /\ evals = {} /\ hist = <<>> /\ nr_out = NoArray
    /\ before = self_params /\ writes = 0

\* ---------------------------------------------------------------- actions
\* lines 98-110: fit is called; y is expanded, params copied, the objective
\* evaluated at the stored parameters, and the method dispatched
Fit ==
    /\ pc = "idle"
    /\ \E xs \in XShapes, ya \in YArgs(output_dim), m \in Methods, mi \in 0..MaxIter :
        LET yy == Expand(output_dim, ya)
            p0 == CopyArray(self_params)
        IN  /\ x' = xs /\ y_arg' = ya /\ method' = m /\ max_iter' = mi
            /\ y' = yy
            /\ params' = p0
            /\ before' = self_params
            /\ IF ~ObjDotOK(xs, p0, self_params.shape)
               THEN /\ pc' = "failed" /\ err' = "ValueError"
                    /\ evals' = {}
                    /\ old_value' = None /\ hist' = <<>> /\ out' = <<>>
               ELSE IF ~ObjPowOK(xs, yy, self_params.shape)
               THEN /\ pc' = "failed" /\ err' = "ValueError"
                    /\ evals' = {"dot", "softmax"}
                    /\ old_value' = None /\ hist' = <<>> /\ out' = <<>>
               ELSE
                    /\ old_value' = InitialObjective
                    /\ hist' = <<InitialObjective>>
                    /\ evals' = {"dot", "softmax", "objective"}
                    /\ err' = "none"
                    /\ IF m = NewtonRaphson
                       THEN pc' = "loop" /\ out' = <<Header>>
                       ELSE pc' = "external" /\ out' = <<>>
    /\ UNCHANGED <<ctor, self_params, new_value, iters, term, ret, nr_out, writes>>

\* lines 111-128, 150: one pass through the loop body that returns; on
\* break the parameters are stored and returned
LoopIter ==
    /\ pc = "loop"
    /\ InRange(iters, max_iter)
    /\ DotOK(x, params.shape)
    /\ \E np \in newton_raphson(params), dv \in Deltas :
        LET nv == old_value + dv
            p  == Accept(np, params, nv, old_value)
            st == LoopBodyStore(self_params, np)
        IN  /\ params' = p
            /\ nr_out' = np
            /\ new_value' = nv
            /\ hist' = Append(hist, nv)
            /\ IF BreakTest(nv, old_value)
               THEN /\ term' = "CONVERGED"
                    /\ old_value' = old_value
                    /\ self_params' = Reshape(p, self_params.shape)
                    /\ writes' = writes + st.writes + 1
                    /\ out' = out \o Printed(verbose, iters) \o Printed(verbose, TheEnd)
                    /\ ret' = p
                    /\ pc' = "done"
               ELSE /\ term' = term
                    /\ old_value' = NextOld(nv, old_value)
                    /\ self_params' = st.params
                    /\ writes' = writes + st.writes
                    /\ out' = out \o Printed(verbose, iters)
                    /\ ret' = ret
                    /\ pc' = "loop"
    /\ iters' = iters + 1
    /\ evals' = evals \cup {"gradient", "hessian", "newton_raphson"}
    /\ UNCHANGED <<ctor, args, y, err, before>>

\* lines 111-121: a pass through the loop body in which np.dot, gradient,
\* hessian, newton_raphson or the objective raises
LoopRaise ==
    /\ pc = "loop"
    /\ InRange(iters, max_iter)
    /\ pc' = "failed"
    /\ err' = IF DotOK(x, params.shape) THEN "NumericalError" ELSE "ValueError"
    /\ iters' = iters + 1
    /\ out' = out \o Printed(verbose, iters)
    /\ UNCHANGED <<ctor, args, y, self_params, params, old_value, new_value,
                   term, ret, evals, hist, nr_out, before, writes>>

\* lines 111, 126-128, 150: range(max_iter) is exhausted; the parameters are
\* stored and returned
LoopExhaust ==
    /\ pc = "loop"
    /\ ~InRange(iters, max_iter)
    /\ term' = "MAX_ITER_REACHED"
    /\ self_params' = Reshape(params, self_params.shape)
    /\ writes' = writes + 1
    /\ out' = out \o Printed(verbose, TheEnd)
    /\ ret' = params
    /\ pc' = "done"
    /\ UNCHANGED <<ctor, args, y, params, old_value, new_value, iters, err,
                   evals, hist, nr_out, before>>

\* lines 130-150: any other method goes to scipy's minimize
FitExternal ==
    /\ pc = "external"
    /\ LET flat == Reshape(params, <<Len(params.data)>>)
       IN  \E res_x \in minimize(flat) :
            /\ ReshapeOK(res_x, self_params.shape)
            /\ params' = res_x
            /\ self_params' = Reshape(res_x, self_params.shape)
            /\ ret' = res_x
    /\ writes' = writes + 1
    /\ pc' = "done"
    /\ UNCHANGED <<ctor, args, y, old_value, new_value, iters, term, out,
                   err, evals, hist, nr_out, before>>

\* the call has returned or raised; the caller may call fit again
Return ==
    /\ pc \in {"done", "failed"}
    /\ pc' = "idle"
    /\ x' = <<>> /\ y_arg' = [kind |-> "none", val |-> <<>>]
    /\ method' = "" /\ max_iter' = 0
    /\ y' = <<>>
    /\ params' = NoArray /\ old_value' = None /\ new_value' = None
    /\ iters' = 0 /\ term' = "none" /\ out' = <<>> /\ ret' = NoArray
    /\ err' = "none" /\ evals' = {} /\ hist' = <<>> /\ nr_out' = NoArray
    /\ before' = self_params /\ writes' = 0
    /\ UNCHANGED <<ctor, self_params>>

Next ==
    \/ Fit
    \/ LoopIter
    \/ LoopRaise
    \/ LoopExhaust
    \/ FitExternal
    \/ Return

Spec == Init /\ [][Next]_vars

\* fit runs synchronously in one thread: a started call keeps executing
LiveSpec == Spec /\ WF_vars(LoopIter \/ LoopRaise \/ LoopExhaust)

\* ------------------------------------------------------------ properties
Running == pc # "idle"
OnNewton == Running /\ method = NewtonRaphson

\* C1: a Newton-Raphson fit with max_iter = 0 returns and stores exactly the
\* parameters that were stored before the call.
C1_ZeroIterations ==
    (pc = "done" /\ method = NewtonRaphson /\ max_iter = 0)
        => (ret = before /\ self_params = before /\ iters = 0)

C1_Witness ==
    /\ pc = "done" /\ method = NewtonRaphson /\ max_iter = 0
    /\ ret = before /\ Len(before.data) > 1

\* C2: the Newton-Raphson loop enters its body at most max_iter times, leaves
\* only as CONVERGED or MAX_ITER_REACHED, and every call that is in the loop
\* leaves it (or raises).
C2_BoundedAndTerminates ==
    /\ [](OnNewton => iters <= max_iter)
    /\ []((OnNewton /\ pc = "done")
            => /\ term \in {"CONVERGED", "MAX_ITER_REACHED"}
               /\ (term = "MAX_ITER_REACHED" => iters = max_iter))
    /\ [](pc = "loop" => term = "none")
    /\ ((pc = "loop") ~> (pc = "failed" \/ term \in {"CONVERGED", "MAX_ITER_REACHED"}))

C2_Witness ==
    /\ pc = "done" /\ term = "MAX_ITER_REACHED"
    /\ max_iter = MaxIter /\ iters = max_iter

\* C3: self.params is not assigned while the loop runs and is assigned once
\* on exit; a call that raised leaves self.params as it was before the call.
C3_StoredOnlyOnExit ==
    /\ (OnNewton /\ pc \in {"loop", "failed"})
            => (writes = 0 /\ self_params = before)
    /\ (OnNewton /\ pc = "done") => writes = 1

C3_Witness ==
    /\ pc = "failed" /\ method = NewtonRaphson /\ iters >= 2
    /\ nr_out # NoArray /\ nr_out.data # before.data
    /\ self_params = before

\* C4: with verbose false the Newton-Raphson path prints nothing.
C4_SilentWhenNotVerbose ==
    (OnNewton /\ verbose = FALSE) => out = <<>>

\* C5: a label list is expanded, before anything is evaluated, to the one-hot
\* matrix whose row i is the identity row of label i, so the call proceeds
\* from the same locals as a call given that matrix.
OneHotMatrix(labels) ==
    [i \in 1..Len(labels) |->
        [c \in 1..output_dim |-> IF c = labels[i] + 1 THEN 1 ELSE 0]]

C5_LabelExpansion ==
    (Running /\ IsList(y_arg)) =>
        LET asArray == [kind |-> "array", val |-> OneHotMatrix(y_arg.val)]
        IN  /\ y = Expand(output_dim, asArray)
            /\ (hist # <<>>) <=> (/\ ObjDotOK(x, before, before.shape)
                                  /\ ObjPowOK(x, asArray.val, before.shape))

C5_Witness ==
    /\ pc = "done" /\ IsList(y_arg) /\ method = NewtonRaphson
    /\ Len(y_arg.val) = 2 /\ y_arg.val[1] = 1 /\ y_arg.val[2] = 0
    /\ iters >= 1

\* C6: incompatible shapes make fit raise ShapeMismatchError before any
\* kernel is evaluated, with self.params unchanged.
Incompatible ==
    \/ x[2] # input_dim
    \/ Len(y) # x[1]
    \/ Len(y[1]) # output_dim

C6_ShapeMismatchFailsFast ==
    (Running /\ Incompatible) =>
        /\ pc = "failed"
        /\ err = "ShapeMismatchError"
        /\ evals = {}
        /\ self_params = before

\* C7: each iteration compares the objective at the new parameters with the
\* previous value (the initial objective, then the last accepted one); the
\* loop stops exactly when the improvement is below 1.0, and otherwise the
\* new value becomes the previous value.
C7_StoppingRule ==
    [][(Len(hist') = Len(hist) + 1 /\ hist # <<>>) =>
         LET nv   == hist'[Len(hist')]
             prev == hist[Len(hist)]
         IN  /\ new_value' = nv
             /\ old_value = prev
             /\ (pc' = "done" /\ term' = "CONVERGED") <=> (nv - prev < Scale)
             /\ (nv - prev >= Scale) => (pc' = "loop" /\ old_value' = nv)]_vars

C7_Witness ==
    /\ pc = "done" /\ term = "CONVERGED" /\ iters = 2
    /\ hist[2] - hist[1] = Scale
    /\ hist[3] - hist[2] = Scale - 1

\* C8: the objective values of a run rise by at least 1.0 at every iteration
\* but possibly the last one performed.
C8_MonotoneButLast ==
    \A j \in 1..(Len(hist) - 1) :
        (j < Len(hist) - 1 \/ pc = "loop") => hist[j + 1] >= hist[j] + Scale

C8_Witness ==
    /\ pc = "done" /\ Len(hist) = 3
    /\ hist[2] >= hist[1] + Scale
    /\ hist[3] < hist[2]

\* C9: after at least one iteration fit returns and stores the result of the
\* last newton_raphson call, also when the objective there is lower than before.
C9_NoRevertToBest ==
    (pc = "done" /\ method = NewtonRaphson /\ iters >= 1) =>
        /\ ret = nr_out
        /\ self_params.data = nr_out.data

C9_Witness ==
    /\ pc = "done" /\ method = NewtonRaphson /\ iters = 2
    /\ term = "CONVERGED" /\ hist[3] < hist[2]
    /\ ret = nr_out /\ ret.data # before.data

\* C10: self.params always has the shape (input_dim, output_dim).
C10_ShapeFixed ==
    /\ self_params.shape = <<input_dim, output_dim>>
    /\ Len(self_params.data) = input_dim * output_dim

C10_Witness ==
    /\ pc = "done" /\ writes = 1
    /\ Len(ret.shape) = 1 /\ output_dim > 1 /\ input_dim > 1
    /\ self_params.data = ret.data

====
